---- MODULE Spec2Model ----
(***************************************************************************)
(* custom::deque<T, A> of src/unnamed/part_000 (the variant of deque.h     *)
(* whose push_front, pop_front, pop_back, clear, reallocate and operator=  *)
(* have bodies), with T = int.                                             *)
(*                                                                         *)
(* A deque is the record of its data members (lines 141-146).  The block   *)
(* pointer array `data` is a sequence of pointers; a pointer is Null or    *)
(* the index of a block in `heap`.  Two deques, "a" and "b", exist so that *)
(* operator= has a source and a target.                                    *)
(*                                                                         *)
(* numCells is a data member: the constructor sets it to 16 (line 43) and  *)
(* the friend class TestDeque (line 37) configures smaller blocks.  The    *)
(* model runs the constructor's 16 and the block sizes 1 and 2.            *)
(*                                                                         *)
(* Undefined behaviour is a choice between the outcomes a build produces:  *)
(*  - a store or load through a null block pointer, or through the null    *)
(*    pointer array, either ends the run (status "crashed") or goes on     *)
(*    with the store lost / an arbitrary value loaded;                     *)
(*  - an integer division by zero (numBlocks = 0 in iaFromID or in         *)
(*    push_front) either traps (status "crashed") or goes on with an       *)
(*    arbitrary small result;                                              *)
(*  - a failed assert() ends the run (status "aborted") in a build without *)
(*    NDEBUG and is skipped in a build with it.                            *)
(* pop_front and pop_back are called on non-empty deques only (their       *)
(* assert, lines 376 and 416).                                             *)
(*                                                                         *)
(* An allocation that fails throws std::bad_alloc out of the call; the run  *)
(* goes on in the caller.                                                  *)
(*                                                                         *)
(* `op` tells whether the last call grew the storage.  `abs` is the        *)
(* sequence the calls on deque "a" denote (prepend, append, remove first,  *)
(* remove last, empty); it is kept when `ghost` holds, as in SpecSeq.      *)
(***************************************************************************)
EXTENDS Integers, Sequences, FiniteSets, TLC

NumCells == 16
MaxBlocks == 3
MaxElements == 4
MaxRun == 2

Null == 0
Wild == Null - 1

Deques == {"a", "b"}
Values == {1, 2}
CellSizes == {1, 2, NumCells}
Garbage == {0, 1}

VARIABLES dq, heap, status, op, ghost, abs

vars == <<dq, heap, status, op, ghost, abs>>

(***************************************************************************)
(* Pure helpers                                                            *)
(***************************************************************************)
Min(m, n) == IF m < n THEN m ELSE n

Nulls(n) == [k \in 1 .. n |-> Null]

\* numBlocks * numCells, the divisor of iaFromID and push_front
total(q) == q.numCells * q.numBlocks

\* array index from deque index
iaFromID(q, id) == (q.iaFront + id) % (q.numCells * q.numBlocks)

\* block index from deque index
ibFromID(q, id) == iaFromID(q, id) \div q.numCells

\* cell index from deque index
icFromID(q, id) == iaFromID(q, id) % q.numCells

\* data[ibFromID(id)][icFromID(id)] designates an object: the divisor is not
\* zero, the block pointer is not null and the cell lies inside the block
Defined(q, h, id) ==
    /\ total(q) > 0
    /\ ibFromID(q, id) < Len(q.data)
    /\ q.data[ibFromID(q, id) + 1] # Null
    /\ icFromID(q, id) < Len(h[q.data[ibFromID(q, id) + 1]])

\* operator[] as an rvalue; Wild when the access is undefined
index(q, h, id) ==
    IF Defined(q, h, id)
    THEN h[q.data[ibFromID(q, id) + 1]][icFromID(q, id) + 1]
    ELSE Wild

front(q, h) == index(q, h, 0)
back(q, h) == index(q, h, q.numElements - 1)
size(q) == q.numElements
empty(q) == q.numElements = 0

\* data[ibFromID(id)][icFromID(id)] = v; a store through a wild place is lost
Store(q, h, id, v) ==
    IF Defined(q, h, id)
    THEN [h EXCEPT ![q.data[ibFromID(q, id) + 1]][icFromID(q, id) + 1] = v]
    ELSE h

\* what operator[] yields for every logical index
View(q, h) == [i \in 1 .. q.numElements |-> index(q, h, i - 1)]

\* the block pointer behind every logical index (Null where there is none)
BlockOf(q, id) ==
    IF total(q) > 0 /\ ibFromID(q, id) < Len(q.data)
    THEN q.data[ibFromID(q, id) + 1]
    ELSE Null

(***************************************************************************)
(* reallocate(numBlocksNew), lines 434-478                                 *)
(***************************************************************************)
\* the pointers the loop of lines 443-448 copies: its guard is
\* `idOld > numElements` with idOld = 0, so it is never entered (were it
\* entered, `idOld + numCells` would leave idOld at 0)
UnwrapLoop(q, numBlocksNew) ==
    IF 0 > q.numElements
    THEN [k \in 1 .. numBlocksNew |-> q.data[ibFromID(q, 0) + 1]]
    ELSE << >>

\* lines 458-460
BackInFrontCell(q) ==
    /\ q.numElements > 0
    /\ ibFromID(q, 0) = ibFromID(q, q.numElements - 1)
    /\ icFromID(q, 0) = icFromID(q, q.numElements - 1)

\* the cells the loop of lines 465-468 moves: `ic > icFromID(..)` from ic = 0
MoveLoop(q) == {ic \in 0 .. q.numCells - 1 : 0 > icFromID(q, q.numElements - 1)}

\* reallocate without line 476: iaFront is left where it was
reallocate_FrontKept(q, h, numBlocksNew) ==
    LET copied == UnwrapLoop(q, numBlocksNew)
        dataNew0 == copied \o Nulls(numBlocksNew - Len(copied))
        move == BackInFrontCell(q)
        ibBackNew == q.numElements \div q.numCells
        hNew == IF move THEN Append(h, << q.numCells >>) ELSE h
        dataNew == IF move
                   THEN [dataNew0 EXCEPT ![ibBackNew + 1] = Len(hNew)]
                   ELSE dataNew0
    IN [assertOk |-> numBlocksNew > 0 /\ numBlocksNew > q.numElements,
        heap |-> hNew,
        q |-> [q EXCEPT !.data = dataNew, !.numBlocks = numBlocksNew]]

reallocate(q, h, numBlocksNew) ==
    LET copied == UnwrapLoop(q, numBlocksNew)
        dataNew0 == copied \o Nulls(numBlocksNew - Len(copied))
        move == BackInFrontCell(q)
        ibBackOld == ibFromID(q, q.numElements - 1)
        ibBackNew == q.numElements \div q.numCells
        \* new T(numCells): ONE object of type T, initialised with numCells
        fresh0 == << q.numCells >>
        fresh == [ic \in 1 .. Len(fresh0) |->
                     IF (ic - 1) \in MoveLoop(q)
                     THEN h[q.data[ibBackOld + 1]][ic]
                     ELSE fresh0[ic]]
        hNew == IF move THEN Append(h, fresh) ELSE h
        dataNew == IF move
                   THEN [dataNew0 EXCEPT ![ibBackNew + 1] = Len(hNew)]
                   ELSE dataNew0
    IN [assertOk |-> numBlocksNew > 0 /\ numBlocksNew > q.numElements,
        heap |-> hNew,
        q |-> [q EXCEPT !.data = dataNew,
                        !.numBlocks = numBlocksNew,
                        !.iaFront = q.iaFront % q.numCells]]

\* the new-expressions of reallocate: line 440 always, line 464 in the branch
\* of lines 458-460
AllocationSites(q) == {440} \cup (IF BackInFrontCell(q) THEN {464} ELSE {})

\* the deque when the statement at `line` throws: each member has the value
\* reallocate gives it if its write precedes `line`, its old value otherwise;
\* atData, atNumBlocks and atFront are the lines of the three writes
Interrupted(q, done, line, atData, atNumBlocks, atFront) ==
    [q EXCEPT !.data = IF atData < line THEN done.data ELSE q.data,
              !.numBlocks = IF atNumBlocks < line
                            THEN done.numBlocks ELSE q.numBlocks,
              !.iaFront = IF atFront < line THEN done.iaFront ELSE q.iaFront]

\* reallocate that sets numBlocks right after the assert, at line 438
reallocate_bad_alloc_CountFirst(q, h, numBlocksNew, line) ==
    [q |-> Interrupted(q, reallocate(q, h, numBlocksNew).q, line,
                       474, 438, 476),
     heap |-> h]

\* the deque and the heap when the new-expression of `line` throws: the
\* members are written at lines 474-476, dataNew is a local, and the block of
\* line 464 does not exist
reallocate_bad_alloc(q, h, numBlocksNew, line) ==
    [q |-> Interrupted(q, reallocate(q, h, numBlocksNew).q, line,
                       474, 475, 476),
     heap |-> h]

(***************************************************************************)
(* Bookkeeping shared by the calls                                         *)
(***************************************************************************)
Same(q, h) == [assertOk |-> TRUE, heap |-> h, q |-> q]

\* "reallocate" when the call grew the storage, "call" otherwise
Called(grew) == IF grew THEN "reallocate" ELSE "call"

Commit(x, q, h, a, rec) ==
    /\ dq' = [dq EXCEPT ![x] = q]
    /\ heap' = h
    /\ abs' = IF ghost /\ x = "a" THEN a ELSE abs
    /\ op' = rec
    /\ UNCHANGED <<status, ghost>>

Halt(s, rec) ==
    /\ status' = s
    /\ op' = rec
    /\ UNCHANGED <<dq, heap, abs, ghost>>

(***************************************************************************)
(* Initial state: two deques after deque(const A&), line 43                *)
(***************************************************************************)
NewDeque(c) ==
    [numCells |-> c, numBlocks |-> 0, numElements |-> 0, iaFront |-> 0,
     data |-> << >>]

Constructed ==
    /\ \E c \in CellSizes : dq = [x \in Deques |-> NewDeque(c)]
    /\ heap = << >>
    /\ abs = << >>
    /\ status = "running"
    /\ op = "none"

Init == Constructed /\ ghost = FALSE

InitSeq == Constructed /\ ghost = TRUE

(***************************************************************************)
(* push_front, lines 317-326 (copy) and 333-342 (move)                     *)
(***************************************************************************)
Full(q) == q.numElements = q.numBlocks * q.numCells

\* lines 320-321
Grown(q, h) == IF Full(q) THEN reallocate(q, h, q.numBlocks + 1) ELSE Same(q, h)

\* line 323
StepBack(q) ==
    [q EXCEPT !.iaFront = (q.iaFront - 1 + q.numBlocks * q.numCells)
                             % (q.numBlocks * q.numCells)]

\* line 325
Counted(q) == [q EXCEPT !.numElements = q.numElements + 1]

push_front(x, t) ==
    LET q == dq[x]
        r == Grown(q, heap)
        rec == Called(Full(q))
        a == << t >> \o abs
    IN /\ status = "running"
       /\ q.numElements < MaxElements
       /\ ghost /\ x = "a" => Len(abs) < MaxElements
       /\ Full(q) => q.numBlocks < MaxBlocks
       /\ total(r.q) > 0
       /\ \/ /\ ~r.assertOk
             /\ Halt("aborted", rec)
          \/ /\ Defined(StepBack(r.q), r.heap, 0)
             /\ Commit(x, Counted(StepBack(r.q)),
                       Store(StepBack(r.q), r.heap, 0, t), a, rec)
          \/ /\ ~Defined(StepBack(r.q), r.heap, 0)
             /\ Commit(x, Counted(StepBack(r.q)), r.heap, a, rec)
          \/ /\ ~Defined(StepBack(r.q), r.heap, 0)
             /\ Halt("crashed", rec)

\* push_front on a deque that operator= left with elements and no block:
\* no growth (numElements # 0 = numBlocks * numCells), line 323 divides by zero
push_front_noblocks(x, t) ==
    LET q == dq[x]
        rec == Called(FALSE)
    IN /\ status = "running"
       /\ q.numElements < MaxElements
       /\ ~Full(q)
       /\ total(q) = 0
       /\ \/ Halt("crashed", rec)
          \/ \E g \in Garbage :
                Commit(x, Counted([q EXCEPT !.iaFront = g]), heap,
                       << t >> \o abs, rec)

\* push_front on a full deque when an allocation of reallocate throws
\* std::bad_alloc: the exception leaves push_front before line 323
push_front_bad_alloc(x, t) ==
    LET q == dq[x]
    IN /\ status = "running"
       /\ Full(q)
       /\ \E line \in AllocationSites(q) :
             LET thrown == reallocate_bad_alloc(q, heap, q.numBlocks + 1, line)
             IN Commit(x, thrown.q, thrown.heap, abs, "bad_alloc")

PushFrontCopyBadAlloc(x, t) == push_front_bad_alloc(x, t)

PushFrontMoveBadAlloc(x, t) == push_front_bad_alloc(x, t)

PushFrontCopy(x, t) == push_front(x, t)

PushFrontMove(x, t) == push_front(x, t)

PushFrontCopyNoBlocks(x, t) == push_front_noblocks(x, t)

PushFrontMoveNoBlocks(x, t) == push_front_noblocks(x, t)

(***************************************************************************)
(* push_back, lines 299-311: both bodies are empty                         *)
(***************************************************************************)
push_back(x, t) ==
    /\ status = "running"
    /\ ghost /\ x = "a" => Len(abs) < MaxElements
    /\ Commit(x, dq[x], heap, Append(abs, t), Called(FALSE))

PushBackCopy(x, t) == push_back(x, t)

PushBackMove(x, t) == push_back(x, t)

(***************************************************************************)
(* pop_front, lines 373-407                                                *)
(***************************************************************************)
\* &data[ib][ic] != nullptr, line 386: false only for cell 0 of a null block
CellAddressNotNull(ptr, ic) == ptr # Null \/ ic # 0

pop_front_body(q) ==
    LET ib == ibFromID(q, 0)
        blockEmpty == \A ic \in 0 .. q.numCells - 1 :
                         ~CellAddressNotNull(q.data[ib + 1], ic)
        data1 == IF blockEmpty THEN [q.data EXCEPT ![ib + 1] = Null] ELSE q.data
        q1 == [q EXCEPT !.data = data1]
        q2 == IF q1.numElements = 1
              THEN LET z == [q1 EXCEPT !.iaFront = 0]
                   IN [z EXCEPT !.data[ibFromID(z, 0) + 1] = Null]
              ELSE q1
        q3 == IF q2.numBlocks = 1
              THEN [q2 EXCEPT !.iaFront = (q2.iaFront + 1) % q2.numCells]
              ELSE [q2 EXCEPT !.iaFront = q2.iaFront + 1]
    IN [q3 EXCEPT !.numElements = q3.numElements - 1]

\* numBlocks = 0: every ibFromID divides by zero and data is the null array;
\* what is left of the body when the run goes on
pop_front_wild(q) ==
    LET q2 == IF q.numElements = 1 THEN [q EXCEPT !.iaFront = 0] ELSE q
        q3 == IF q2.numBlocks = 1
              THEN [q2 EXCEPT !.iaFront = (q2.iaFront + 1) % q2.numCells]
              ELSE [q2 EXCEPT !.iaFront = q2.iaFront + 1]
    IN [q3 EXCEPT !.numElements = q3.numElements - 1]

PopFront(x) ==
    /\ status = "running"
    /\ dq[x].numElements > 0
    /\ total(dq[x]) > 0
    /\ Commit(x, pop_front_body(dq[x]), heap, Tail(abs),
              Called(FALSE))

PopFrontNoBlocks(x) ==
    /\ status = "running"
    /\ dq[x].numElements > 0
    /\ total(dq[x]) = 0
    /\ \/ Commit(x, pop_front_wild(dq[x]), heap, Tail(abs),
                 Called(FALSE))
       \/ Halt("crashed", Called(FALSE))

(***************************************************************************)
(* pop_back, lines 413-427                                                 *)
(***************************************************************************)
pop_back_body(q) ==
    LET idRemove == q.numElements - 1
        q1 == IF \/ q.numElements = 1
                 \/ /\ icFromID(q, idRemove) = 0
                    /\ ibFromID(q, idRemove) # ibFromID(q, 0)
              THEN [q EXCEPT !.data[ibFromID(q, idRemove) + 1] = Null]
              ELSE q
    IN [q1 EXCEPT !.numElements = q1.numElements - 1]

pop_back_wild(q) == [q EXCEPT !.numElements = q.numElements - 1]

PopBack(x) ==
    /\ status = "running"
    /\ dq[x].numElements > 0
    /\ total(dq[x]) > 0
    /\ Commit(x, pop_back_body(dq[x]), heap, SubSeq(abs, 1, Len(abs) - 1),
              Called(FALSE))

PopBackNoBlocks(x) ==
    /\ status = "running"
    /\ dq[x].numElements > 0
    /\ total(dq[x]) = 0
    /\ \/ Commit(x, pop_back_wild(dq[x]), heap,
                 SubSeq(abs, 1, Len(abs) - 1), Called(FALSE))
       \/ Halt("crashed", Called(FALSE))

(***************************************************************************)
(* clear, lines 348-367                                                    *)
(***************************************************************************)
clear_body(q) ==
    [q EXCEPT !.data = [ib \in 1 .. Len(q.data) |-> Null],
              !.numElements = 0]

Clear(x) ==
    /\ status = "running"
    /\ dq[x].numElements = 0 \/ total(dq[x]) > 0
    /\ Commit(x, clear_body(dq[x]), heap, << >>, Called(FALSE))

\* the loop of lines 352-355 divides by zero in ibFromID
ClearNoBlocks(x) ==
    /\ status = "running"
    /\ dq[x].numElements > 0
    /\ total(dq[x]) = 0
    /\ \/ Commit(x, clear_body(dq[x]), heap, << >>, Called(FALSE))
       \/ Halt("crashed", Called(FALSE))

(***************************************************************************)
(* operator=, lines 262-293                                                *)
(***************************************************************************)
\* the loop of lines 270-275: *itLHS = *itRHS for the first k indices; g[id]
\* is what a load through a wild place yields
RECURSIVE CopyLoop(_, _, _, _, _, _)
CopyLoop(l, r, h, id, k, g) ==
    IF id >= k
    THEN h
    ELSE LET v == IF Defined(r, h, id) THEN index(r, h, id) ELSE g[id]
         IN CopyLoop(l, r, Store(l, h, id, v), id + 1, k, g)

\* lines 265-290 on *this = l and rhs = r: the first loop copies k elements,
\* the second calls push_back (empty) for the rest, lines 289-290 take rhs's
\* numElements and iaFront; numCells, numBlocks and data stay (lines 285-288
\* are comments)
operator_assign_DataShared(l, r, h, k, g) ==
    [q |-> [l EXCEPT !.numElements = r.numElements,
                     !.iaFront = r.iaFront,
                     !.numBlocks = r.numBlocks,
                     !.data = r.data],
     heap |-> CopyLoop(l, r, h, 0, k, g)]

operator_assign(l, r, h, k, g) ==
    [q |-> [l EXCEPT !.numElements = r.numElements,
                     !.iaFront = r.iaFront],
     heap |-> CopyLoop(l, r, h, 0, k, g)]

Assign(x, y) ==
    LET l == dq[x]
        r == dq[y]
        k == Min(l.numElements, r.numElements)
        wild == \/ \E id \in 0 .. k - 1 :
                      ~Defined(l, heap, id) \/ ~Defined(r, heap, id)
                \/ r.numElements > k /\ total(r) = 0
        \* the indices whose wild load ends in a store that lands
        lands == {id \in 0 .. k - 1 :
                     ~Defined(r, heap, id) /\ Defined(l, heap, id)}
        rec == Called(FALSE)
    IN /\ status = "running"
       /\ \/ /\ ~wild
             /\ LET done == operator_assign(l, r, heap, k, << >>)
                IN Commit(x, done.q, done.heap, abs, rec)
          \/ /\ wild
             /\ \E g \in [lands -> Values] :
                   LET done == operator_assign(l, r, heap, k, g)
                   IN Commit(x, done.q, done.heap, abs, rec)
          \/ /\ wild
             /\ Halt("crashed", rec)

(***************************************************************************)
(* deque(deque& rhs), lines 249-254: `*this = rhs` with no member          *)
(* initialiser.  The members of the new object are the bytes its storage   *)
(* held: those of the deque that lived in the slot before (~deque(), lines *)
(* 47-50, releases nothing).  operator= then runs on them, or the run ends *)
(* on the indeterminate pointer.                                           *)
(***************************************************************************)
CopyConstruct(x, y) ==
    /\ x # y
    /\ \/ Assign(x, y)
       \/ /\ status = "running"
          /\ Halt("crashed", Called(FALSE))

(***************************************************************************)
(* One call on a deque as a function of the deque and the heap, in the     *)
(* outcome where the call returns (a store through a null block is lost, a *)
(* failed assert is compiled out).  ok is FALSE where the call cannot be   *)
(* made (pop on an empty deque) or divides by zero (numBlocks = 0).        *)
(***************************************************************************)
\* lines 320-325
push_front_body(q, h, t) ==
    LET r == Grown(q, h)
        s == StepBack(r.q)
    IN [q |-> Counted(s), heap |-> Store(s, r.heap, 0, t)]

Calls ==
    {<<f, t>> : f \in {"push_front", "push_back"}, t \in Values}
       \cup {<<f, 0>> : f \in {"pop_front", "pop_back", "clear"}}

Call(o, q, h) ==
    CASE o[1] = "push_front" ->
            IF Full(q) \/ total(q) > 0
            THEN LET p == push_front_body(q, h, o[2])
                 IN [ok |-> TRUE, q |-> p.q, heap |-> p.heap]
            ELSE [ok |-> FALSE, q |-> q, heap |-> h]
      [] o[1] = "push_back" -> [ok |-> TRUE, q |-> q, heap |-> h]
      [] o[1] = "pop_front" ->
            IF q.numElements > 0 /\ total(q) > 0
            THEN [ok |-> TRUE, q |-> pop_front_body(q), heap |-> h]
            ELSE [ok |-> FALSE, q |-> q, heap |-> h]
      [] o[1] = "pop_back" ->
            IF q.numElements > 0 /\ total(q) > 0
            THEN [ok |-> TRUE, q |-> pop_back_body(q), heap |-> h]
            ELSE [ok |-> FALSE, q |-> q, heap |-> h]
      [] o[1] = "clear" ->
            IF q.numElements = 0 \/ total(q) > 0
            THEN [ok |-> TRUE, q |-> clear_body(q), heap |-> h]
            ELSE [ok |-> FALSE, q |-> q, heap |-> h]

\* a sequence of calls on one deque; stops at the first call that cannot be made
RECURSIVE Run(_, _, _)
Run(os, q, h) ==
    IF os = << >>
    THEN [ok |-> TRUE, q |-> q, heap |-> h]
    ELSE LET c == Call(Head(os), q, h)
         IN IF c.ok THEN Run(Tail(os), c.q, c.heap) ELSE c

Runs == UNION {[1 .. n -> Calls] : n \in 1 .. MaxRun}

\* n times (read back(); pop_back()), and n times (read front(); pop_front())
RECURSIVE BackReads(_, _, _)
BackReads(q, h, n) ==
    IF n = 0
    THEN [ok |-> TRUE, read |-> << >>, q |-> q]
    ELSE IF ~Call(<<"pop_back", 0>>, q, h).ok
         THEN [ok |-> FALSE, read |-> << >>, q |-> q]
         ELSE LET rest == BackReads(Call(<<"pop_back", 0>>, q, h).q, h, n - 1)
              IN [ok |-> rest.ok, read |-> << back(q, h) >> \o rest.read,
                  q |-> rest.q]

RECURSIVE FrontReads(_, _, _)
FrontReads(q, h, n) ==
    IF n = 0
    THEN [ok |-> TRUE, read |-> << >>, q |-> q]
    ELSE IF ~Call(<<"pop_front", 0>>, q, h).ok
         THEN [ok |-> FALSE, read |-> << >>, q |-> q]
         ELSE LET rest == FrontReads(Call(<<"pop_front", 0>>, q, h).q, h, n - 1)
              IN [ok |-> rest.ok, read |-> << front(q, h) >> \o rest.read,
                  q |-> rest.q]

\* the lists of at most MaxRun values, and a list pushed with one function
Lists == UNION {[1 .. n -> Values] : n \in 0 .. MaxRun}

Pushes(f, vs) == [i \in 1 .. Len(vs) |-> <<f, vs[i]>>]

Reverse(vs) == [i \in 1 .. Len(vs) |-> vs[Len(vs) + 1 - i]]

(***************************************************************************)
(* deque::iterator, lines 160-243: a logical index id and the deque d      *)
(***************************************************************************)
\* the largest value of a 32-bit int
IntMax == 2147483647

\* static_cast<int>(numElements): size_t to 32-bit int
ToInt(n) == IF n <= IntMax THEN n ELSE ((n - IntMax) - IntMax) - 2

\* iterator(int id, deque* d), lines 171-173
iterator(id, d) == [id |-> id, d |-> d]

\* lines 61-64
begin(x) == iterator(0, x)

\* end() that takes the capacity for the element count
end_Capacity(x) == iterator(ToInt(dq[x].numBlocks * dq[x].numCells), x)

\* lines 65-68
end(x) == iterator(ToInt(dq[x].numElements), x)

\* operator !=, line 193
NotEqual(it, rhs) == it.id # rhs.id

\* operator *, lines 199-202
Deref(it) == index(dq[it.d], heap, it.id)

\* operator -, lines 207-210
Minus(lhs, it) == lhs.id - it.id

\* operator ++ (prefix), lines 216-220
Increment(it) == [it EXCEPT !.id = it.id + 1]

\* for (it = begin(); it != end(); ++it) visit(*it), given up after `fuel`
\* steps: the indices and the values dereferenced, in order
RECURSIVE Traverse(_, _, _)
Traverse(it, x, fuel) ==
    IF ~NotEqual(it, end(x))
    THEN [done |-> TRUE, ids |-> << >>, visited |-> << >>]
    ELSE IF fuel = 0
         THEN [done |-> FALSE, ids |-> << >>, visited |-> << >>]
         ELSE LET rest == Traverse(Increment(it), x, fuel - 1)
              IN [done |-> rest.done,
                  ids |-> << it.id >> \o rest.ids,
                  visited |-> << Deref(it) >> \o rest.visited]

Next ==
    \/ \E x \in Deques, t \in Values :
          \/ PushFrontCopy(x, t)
          \/ PushFrontMove(x, t)
          \/ PushFrontCopyNoBlocks(x, t)
          \/ PushFrontMoveNoBlocks(x, t)
          \/ PushFrontCopyBadAlloc(x, t)
          \/ PushFrontMoveBadAlloc(x, t)
          \/ PushBackCopy(x, t)
          \/ PushBackMove(x, t)
    \/ \E x \in Deques :
          \/ PopFront(x)
          \/ PopFrontNoBlocks(x)
          \/ PopBack(x)
          \/ PopBackNoBlocks(x)
          \/ Clear(x)
          \/ ClearNoBlocks(x)
    \/ \E x, y \in Deques : Assign(x, y)
    \/ \E x, y \in Deques : CopyConstruct(x, y)

Spec == Init /\ [][Next]_vars

\* deque "a" alone, with the four end operations and clear: numBlocks = 0
\* with numElements > 0 takes an operator=, so the NoBlocks cases are out
NextSeq ==
    \/ \E t \in Values :
          \/ PushFrontCopy("a", t)
          \/ PushFrontMove("a", t)
          \/ PushFrontCopyBadAlloc("a", t)
          \/ PushFrontMoveBadAlloc("a", t)
          \/ PushBackCopy("a", t)
          \/ PushBackMove("a", t)
    \/ PopFront("a")
    \/ PopBack("a")
    \/ Clear("a")

SpecSeq == InitSeq /\ [][NextSeq]_vars

(***************************************************************************)
(* Properties                                                              *)
(***************************************************************************)
Running == status = "running"

\* C1: after any sequence of push_front, push_back, pop_front and pop_back on
\* a new deque, size() is the length of the abstract sequence, operator[](i)
\* is its i-th element, and front() / back() are its first / last element
C1_RefinesSequence ==
    Running =>
       /\ size(dq["a"]) = Len(abs)
       /\ \A i \in 0 .. size(dq["a"]) - 1 : index(dq["a"], heap, i) = abs[i + 1]
       /\ ~empty(dq["a"]) =>
             /\ front(dq["a"], heap) = abs[1]
             /\ back(dq["a"], heap) = abs[Len(abs)]

\* C2: in every reachable state 0 <= numElements <= numBlocks * numCells
C2_CountWithinCapacity ==
    Running =>
       \A x \in Deques :
          /\ 0 <= dq[x].numElements
          /\ dq[x].numElements <= dq[x].numBlocks * dq[x].numCells

\* C3: with numBlocks >= 1, every logical index i < numElements has
\* iaFromID(i) = (iaFront + i) mod (numBlocks * numCells), ibFromID(i) =
\* iaFromID(i) / numCells inside [0, numBlocks), icFromID(i) = iaFromID(i)
\* mod numCells inside [0, numCells), and distinct logical indices have
\* distinct (block, cell) pairs
C3_IndexMapping ==
    Running =>
       \A x \in Deques :
          dq[x].numBlocks >= 1 =>
             LET q == dq[x]
                 ids == 0 .. q.numElements - 1
             IN /\ \A i \in ids :
                      /\ iaFromID(q, i)
                            = (q.iaFront + i) % (q.numBlocks * q.numCells)
                      /\ ibFromID(q, i) = iaFromID(q, i) \div q.numCells
                      /\ ibFromID(q, i) \in 0 .. q.numBlocks - 1
                      /\ icFromID(q, i) = iaFromID(q, i) % q.numCells
                      /\ icFromID(q, i) \in 0 .. q.numCells - 1
                /\ \A i, j \in ids :
                      i # j => <<ibFromID(q, i), icFromID(q, i)>>
                                  # <<ibFromID(q, j), icFromID(q, j)>>

\* C4: whenever at least one block exists, iaFront lies in
\* [0, numBlocks * numCells)
C4_FrontInRange ==
    Running =>
       \A x \in Deques :
          dq[x].numBlocks >= 1 =>
             /\ 0 <= dq[x].iaFront
             /\ dq[x].iaFront < dq[x].numBlocks * dq[x].numCells

\* C5: push_front(v) on a deque with n elements and a free slot sets iaFront
\* to (iaFront - 1) mod (numBlocks * numCells), makes numElements n + 1 and
\* front() = v, and leaves every previous element at logical index i + 1
C5_PushFront ==
    [][\A x \in Deques, t \in Values :
          (/\ push_front(x, t)
           /\ dq[x].numElements < dq[x].numBlocks * dq[x].numCells
           /\ status' = "running")
          => /\ dq'[x].iaFront
                   = (dq[x].iaFront - 1) % (dq[x].numBlocks * dq[x].numCells)
             /\ dq'[x].numElements = dq[x].numElements + 1
             /\ front(dq'[x], heap') = t
             /\ \A i \in 0 .. dq[x].numElements - 1 :
                   index(dq'[x], heap', i + 1) = index(dq[x], heap, i)]_vars

\* C6: push_back(v) on a deque with n elements stores v at the slot of logical
\* index n, makes numElements n + 1 and back() = v, leaves elements 0..n-1
\* unchanged and, when no growth is needed, leaves iaFront unchanged
C6_PushBack ==
    [][\A x \in Deques, t \in Values :
          (push_back(x, t) /\ status' = "running")
          => /\ dq'[x].numElements = dq[x].numElements + 1
             /\ index(dq'[x], heap', dq[x].numElements) = t
             /\ back(dq'[x], heap') = t
             /\ \A i \in 0 .. dq[x].numElements - 1 :
                   index(dq'[x], heap', i) = index(dq[x], heap, i)
             /\ ~Full(dq[x]) => dq'[x].iaFront = dq[x].iaFront]_vars

\* C7: reallocate keeps the logical sequence: numElements is unchanged, every
\* operator[](i) returns what it returned before, and the blocks that held
\* live elements are carried over into the new block-pointer array
C7_ReallocatePreserves ==
    Running =>
       \A x \in Deques :
          Full(dq[x]) =>
             LET q == dq[x]
                 r == reallocate(q, heap, q.numBlocks + 1)
             IN /\ r.q.numElements = q.numElements
                /\ \A i \in 0 .. q.numElements - 1 :
                      /\ index(r.q, r.heap, i) = index(q, heap, i)
                      /\ BlockOf(q, i) # Null => BlockOf(r.q, i) = BlockOf(q, i)

C9_PopFront ==
    [][\A x \in Deques :
          (PopFront(x) /\ status' = "running")
          => /\ dq'[x].iaFront
                   = (dq[x].iaFront + 1) % (dq[x].numBlocks * dq[x].numCells)
             /\ dq'[x].numElements = dq[x].numElements - 1
             /\ \A i \in 1 .. dq[x].numElements - 1 :
                   index(dq'[x], heap', i - 1) = index(dq[x], heap, i)]_vars

\* C10: pop_back() on a non-empty deque decrements numElements by 1, leaves
\* iaFront, numBlocks and numCells unchanged, and the elements at logical
\* indices 0 .. numElements - 2 keep their values
C10_PopBack ==
    Running =>
       \A x \in Deques :
          (dq[x].numElements > 0 /\ total(dq[x]) > 0) =>
             LET q == dq[x]
                 p == pop_back_body(q)
             IN /\ p.numElements = q.numElements - 1
                /\ p.iaFront = q.iaFront
                /\ p.numBlocks = q.numBlocks
                /\ p.numCells = q.numCells
                /\ \A i \in 0 .. q.numElements - 2 :
                      index(p, heap, i) = index(q, heap, i)

\* the storage invariants of a deque: the count fits the capacity and every
\* logical index designates a cell of an allocated block
WellStored(q, h) ==
    /\ q.numElements <= q.numBlocks * q.numCells
    /\ \A i \in 0 .. q.numElements - 1 : Defined(q, h, i)

\* C11: copy construction and copy assignment from a deque s produce a deque
\* d with d.size() = s.size() and d[i] = s[i] for every i < s.size(), whatever
\* d held before, and d then satisfies the storage invariants (numElements <=
\* numBlocks * numCells, every live element in an allocated block)
C11_CopyEqual ==
    [][\A x, y \in Deques :
          (/\ x # y
           /\ Assign(x, y) \/ CopyConstruct(x, y)
           /\ WellStored(dq[y], heap)
           /\ status' = "running")
          => /\ size(dq'[x]) = size(dq[y])
             /\ \A i \in 0 .. size(dq[y]) - 1 :
                   index(dq'[x], heap', i) = index(dq[y], heap, i)
             /\ WellStored(dq'[x], heap')]_vars

\* x = y on the deques of the state, in every outcome where operator= returns
\* (a load through a wild place yields any value)
Assigned(x, y) ==
    LET l == dq[x]
        r == dq[y]
        k == Min(l.numElements, r.numElements)
        lands == {id \in 0 .. k - 1 :
                     ~Defined(r, heap, id) /\ Defined(l, heap, id)}
    IN {operator_assign(l, r, heap, k, g) : g \in [lands -> Values]}

\* every operator[] of q yields in heap h1 what it yields in heap h2
SameView(q, h1, h2) == h1 = h2 \/ View(q, h1) = View(q, h2)

\* C12: after b = a, a push, pop or clear applied to a leaves b.size() and
\* every b[i] unchanged, and one applied to b leaves a.size() and every a[i]
\* unchanged: no block is shared between the two deques.  Stated in every
\* reachable state, of the call that follows b = a and of the call that
\* follows any earlier call
C12_CopyIndependent ==
    Running =>
       \A x, y \in Deques :
          x # y =>
             /\ \A i \in 1 .. Len(dq[x].data) :
                   \A j \in 1 .. Len(dq[y].data) :
                      dq[x].data[i] # Null => dq[x].data[i] # dq[y].data[j]
             /\ \A s \in {[q |-> dq[x], heap |-> heap]} \cup Assigned(x, y) :
                   \A o \in Calls :
                      LET onSource == Call(o, dq[y], s.heap)
                          onTarget == Call(o, s.q, s.heap)
                      IN /\ onSource.ok => SameView(s.q, onSource.heap, s.heap)
                         /\ onTarget.ok => SameView(dq[y], onTarget.heap, s.heap)

\* b = a makes b a readable copy of a, each deque in a block of its own, and
\* a call on a (pop_back, clear) then changes a
C12_Witness ==
    /\ Running
    /\ dq["a"].numElements >= 1
    /\ WellStored(dq["a"], heap)
    /\ \E s \in Assigned("b", "a") :
          /\ WellStored(s.q, s.heap)
          /\ View(s.q, s.heap) = View(dq["a"], heap)
          /\ \E o \in Calls :
                /\ Call(o, dq["a"], s.heap).ok
                /\ View(Call(o, dq["a"], s.heap).q, Call(o, dq["a"], s.heap).heap)
                      # View(dq["a"], heap)

\* C13: clear() leaves size() = 0 from any reachable state, is a no-op on an
\* empty deque, and every sequence of push_front / push_back / pop calls after
\* clear() gives the size() and the operator[] results that the same sequence
\* gives on a newly constructed deque
C13_ClearAsNew ==
    Running =>
       \A x \in Deques :
          (dq[x].numElements = 0 \/ total(dq[x]) > 0) =>
             LET p == clear_body(dq[x])
                 new == NewDeque(dq[x].numCells)
             IN /\ size(p) = 0
                /\ \A os \in Runs :
                      LET c == Run(os, p, heap)
                          n == Run(os, new, heap)
                          e == Run(os, dq[x], heap)
                      IN /\ c.ok = n.ok
                         /\ c.ok =>
                               /\ size(c.q) = size(n.q)
                               /\ View(c.q, c.heap) = View(n.q, n.heap)
                         /\ (empty(dq[x]) /\ c.ok) =>
                               /\ e.ok
                               /\ size(e.q) = size(c.q)
                               /\ View(e.q, e.heap) = View(c.q, c.heap)

\* C14: for every list of n >= 0 values, pushing them with push_back and then
\* doing n times (read back(); pop_back()) reads the values in reverse order
\* of insertion and restores the deque's previous size and contents
C14_BackRoundTrip ==
    Running =>
       \A x \in Deques :
          \A vs \in Lists :
             LET p == Run(Pushes("push_back", vs), dq[x], heap)
                 r == BackReads(p.q, p.heap, Len(vs))
             IN /\ p.ok
                /\ r.ok
                /\ r.read = Reverse(vs)
                /\ size(r.q) = size(dq[x])
                /\ View(r.q, p.heap) = View(dq[x], heap)

\* C15: for every list of n >= 0 values, pushing them with push_front onto an
\* empty deque and then doing n times (read front(); pop_front()) reads the
\* values in original insertion order
C15_FrontRoundTrip ==
    Running =>
       \A x \in Deques :
          empty(dq[x]) =>
             \A vs \in Lists :
                LET p == Run(Pushes("push_front", vs), dq[x], heap)
                    r == FrontReads(p.q, p.heap, Len(vs))
                IN /\ p.ok
                   /\ r.ok
                   /\ r.read = vs

\* C16: in every reachable state end() - begin() = size(), and advancing an
\* iterator with ++ from begin() until it equals end() takes exactly size()
\* steps and dereferences, at step k, the element operator[](k)
C16_IteratorTraversal ==
    Running =>
       \A x \in Deques :
          LET tr == Traverse(begin(x), x, size(dq[x]) + 1)
          IN /\ Minus(end(x), begin(x)) = size(dq[x])
             /\ tr.done
             /\ Len(tr.visited) = size(dq[x])
             /\ \A k \in 0 .. size(dq[x]) - 1 :
                   /\ tr.ids[k + 1] = k
                   /\ tr.visited[k + 1] = index(dq[x], heap, k)

\* a deque of at least two elements whose first element can be read, and its
\* traversal reads it first
C16_Witness ==
    /\ Running
    /\ size(dq["a"]) >= 2
    /\ size(dq["a"]) # dq["a"].numBlocks * dq["a"].numCells
    /\ Defined(dq["a"], heap, 0)
    /\ Traverse(begin("a"), "a", size(dq["a"]) + 1).visited[1] \in Values

\* C17: if an allocation performed during growth fails while push_front /
\* push_back runs on a full deque, the deque is left exactly as it was:
\* numBlocks, numElements, iaFront, the block-pointer array and every element
\* value are unchanged
C17_BadAllocKeepsDeque ==
    [][op' = "bad_alloc" =>
          \A x \in Deques, t \in Values :
             push_front_bad_alloc(x, t)
             => /\ dq'[x].numBlocks = dq[x].numBlocks
                /\ dq'[x].numElements = dq[x].numElements
                /\ dq'[x].iaFront = dq[x].iaFront
                /\ dq'[x].data = dq[x].data
                /\ View(dq'[x], heap') = View(dq[x], heap)
                /\ \A i \in 1 .. Len(dq[x].data) :
                      dq[x].data[i] # Null =>
                         heap'[dq[x].data[i]] = heap[dq[x].data[i]]]_vars

\* the allocation failed in a push_front on deque "a", full with two elements
\* of which the first can be read (deque "b" is not full)
C17_Witness ==
    /\ Running
    /\ op = "bad_alloc"
    /\ Full(dq["a"])
    /\ ~Full(dq["b"])
    /\ dq["a"].numElements >= 2
    /\ Defined(dq["a"], heap, 0)

\* C18: in every reachable state every live element resides in an allocated
\* block: for all i in [0, numElements), data[ibFromID(i)] is not null (no
\* push stores a value through a null block pointer)
C18_LiveInAllocatedBlock ==
    Running =>
       \A x \in Deques :
          \A i \in 0 .. dq[x].numElements - 1 : BlockOf(dq[x], i) # Null

\* C19: whenever push_front finds the deque full (numElements = numBlocks *
\* numCells) and calls reallocate(numBlocks + 1), the entry assertion of
\* reallocate holds, for the empty deque without blocks and for a non-empty
\* deque whose blocks are all full
C19_GrowthConditionHolds ==
    Running =>
       \A x \in Deques :
          Full(dq[x]) =>
             reallocate(dq[x], heap, dq[x].numBlocks + 1).assertOk

\* C20: pop_front and pop_back set a block pointer to null only when, after
\* the pop, no remaining logical index in [0, numElements) maps into that
\* block
C20_PopReleasesEmptyBlock ==
    Running =>
       \A x \in Deques :
          (dq[x].numElements > 0 /\ total(dq[x]) > 0) =>
             \A p \in {pop_front_body(dq[x]), pop_back_body(dq[x])} :
                \A ib \in 1 .. Len(dq[x].data) :
                   (dq[x].data[ib] # Null /\ p.data[ib] = Null) =>
                      \A i \in 0 .. p.numElements - 1 :
                         ibFromID(p, i) # ib - 1

====
